---- MODULE Spec2Model ----
(***************************************************************************)
(* Blogicum (blog/views.py, blog/forms.py, blog/urls.py) as a state        *)
(* machine: the database tables the handlers read and write, the clock,    *)
(* and the request being served with the response the handler gave it.     *)
(* One action per URL route; every handler runs from dispatch() to the     *)
(* response in one step.                                                   *)
(***************************************************************************)
EXTENDS Integers, FiniteSets

----
\* Bounds of the model

\* Largest value of the clock; pub_date values range over 0..MaxNow as well.
MaxNow == 1
\* Number of Post primary keys ever handed out.
MaxPosts == 2
\* Number of Comment primary keys ever handed out.
MaxComments == 1

----
\* Values

Users == {"u1", "u2"}
Anonymous == "anon"
Viewers == Users \cup {Anonymous}
\* usernames: the ones the accounts start with, and one nobody has
Usernames == {"n1", "n2", "n3"}
InitUsername == [u \in Users |-> IF u = "u1" THEN "n1" ELSE "n2"]
\* category slugs a URL can carry
Slugs == {"s1", "s2", "s3"}
\* the category of a post that has none (None)
NoCategory == "unset"
Dates == 0..MaxNow
PostIds == 1..MaxPosts
CommentIds == 1..MaxComments
Titles == {"", "t"}
Texts == {"", "a", "b"}
Methods == {"GET", "POST"}

VARIABLES
    now,            \* timezone.now()
    username,       \* User table: user -> username
    categories,     \* Category table: set of [slug, is_published]
    posts,          \* Post table: id -> [author, category, pub_date, is_published, title]
    comments,       \* Comment table: id -> [author, post, text]
    nextPostId,     \* next Post primary key
    nextCommentId,  \* next Comment primary key
    req,            \* the request being served
    resp            \* the response the handler gave it

db == <<username, categories, posts, comments, nextPostId, nextCommentId>>
vars == <<now, username, categories, posts, comments, nextPostId, nextCommentId, req, resp>>

----
\* Requests and responses

NoData == [none |-> TRUE]
NoRequest == [view |-> "none", method |-> "GET", user |-> Anonymous,
              id |-> 0, comment |-> 0, name |-> "", data |-> NoData]
Request(view, method, user, id, comment, name, data) ==
    [view |-> view, method |-> method, user |-> user,
     id |-> id, comment |-> comment, name |-> name, data |-> data]

NoRoute == [route |-> "", id |-> 0, name |-> ""]
NoResponse == [status |-> "none", to |-> NoRoute, object |-> 0, body |-> {}, comments |-> {}]
\* a rendered template (HTTP 200) and what its context holds: object, the
\* primary key of the object of a detail or form view (0 when there is none);
\* body, the object list of a list view, each post as [id, comment_count]
\* (the pages of the paginator taken together, as a set: the ordering by
\* -pub_date decides no membership); comments, the comments of the post
\* detail page
Page(object, body, cs) ==
    [status |-> "page", to |-> NoRoute, object |-> object, body |-> body, comments |-> cs]
ListPage(body) == Page(0, body, {})
FormPage(object) == Page(object, {}, {})
\* Http404
NotFound ==
    [status |-> "not_found", to |-> NoRoute, object |-> 0, body |-> {}, comments |-> {}]
\* an uncaught exception (HTTP 500)
ServerError ==
    [status |-> "error", to |-> NoRoute, object |-> 0, body |-> {}, comments |-> {}]
Redirect(route, id, name) ==
    [status |-> "redirect", to |-> [route |-> route, id |-> id, name |-> name],
     object |-> 0, body |-> {}, comments |-> {}]
\* LoginRequiredMixin.handle_no_permission for an anonymous user
RedirectToLogin == Redirect("login", 0, "")

\* a request is taken when the previous one has been answered
Idle == req = NoRequest

----
\* Queries shared by the handlers

\* LoginRequiredMixin.dispatch lets the request through
IsAuthenticated(user) == user # Anonymous

\* the join category__is_published=True: the post has a category and it is published
CategoryPublished(slug) == \E c \in categories : c.slug = slug /\ c.is_published

\* annotate(comment_count=Count('comment'))
CommentCount(p) == Cardinality({c \in DOMAIN comments : comments[c].post = p})
Annotate(qs) == {[id |-> p, comment_count |-> CommentCount(p)] : p \in qs}

----
\* PostListView: /

\* the queryset without the join on the category
PostListQueryset_NoCategoryFilter ==
    {p \in DOMAIN posts : posts[p].is_published /\ posts[p].pub_date <= now}

PostListQueryset ==
    {p \in DOMAIN posts : /\ CategoryPublished(posts[p].category)
                          /\ posts[p].is_published
                          /\ posts[p].pub_date <= now}

PostList(user) ==
    /\ req' = Request("index", "GET", user, 0, 0, "", NoData)
    /\ resp' = ListPage(Annotate(PostListQueryset))
    /\ UNCHANGED <<now, db>>

----
\* PostDetailView: /posts/<id>/

\* what post.category.is_published evaluates to: None has no such attribute
PostDetailCategoryCheck(slug) ==
    IF slug = NoCategory THEN "AttributeError"
    ELSE IF CategoryPublished(slug) THEN "True" ELSE "False"

\* get_context_data: the post, and self.object.comment
PostDetailContext(id) ==
    Page(id, {}, {c \in DOMAIN comments : comments[c].post = id})

PostDetailGetObject(user, id) ==
    IF id \notin DOMAIN posts THEN NotFound
    ELSE IF user = posts[id].author THEN PostDetailContext(id)
    ELSE IF ~posts[id].is_published THEN NotFound
    ELSE IF ~(posts[id].pub_date <= now) THEN NotFound
    ELSE IF PostDetailCategoryCheck(posts[id].category) = "AttributeError" THEN ServerError
    ELSE IF PostDetailCategoryCheck(posts[id].category) = "True"
         THEN PostDetailContext(id)
    ELSE NotFound

PostDetail(user, id) ==
    /\ req' = Request("post_detail", "GET", user, id, 0, "", NoData)
    /\ resp' = PostDetailGetObject(user, id)
    /\ UNCHANGED <<now, db>>

----
\* PostCategoriesView: /category/<category_slug>/

\* get_object_or_404(Category, slug=..., is_published=True)
PostCategoriesCategory(slug) == {c \in categories : c.slug = slug /\ c.is_published}

\* the queryset without category=self.category
PostCategoriesQueryset_AllCategories(slug) ==
    {p \in DOMAIN posts : posts[p].is_published /\ posts[p].pub_date <= now}

PostCategoriesQueryset(slug) ==
    {p \in DOMAIN posts : /\ posts[p].category = slug
                          /\ posts[p].is_published
                          /\ posts[p].pub_date <= now}

PostCategories(user, slug) ==
    /\ req' = Request("category_posts", "GET", user, 0, 0, slug, NoData)
    /\ resp' = IF PostCategoriesCategory(slug) = {} THEN NotFound
               ELSE ListPage(Annotate(PostCategoriesQueryset(slug)))
    /\ UNCHANGED <<now, db>>

----
\* ProfileDetailView: /profile/<username>/

\* get_object_or_404(User, username=...)
ProfileOwner(name) == {u \in Users : username[u] = name}

ProfileQueryset(user, owner) ==
    IF user = owner
    THEN {p \in DOMAIN posts : posts[p].author = owner}
    ELSE {p \in DOMAIN posts : /\ posts[p].author = owner
                               /\ posts[p].is_published
                               /\ posts[p].pub_date <= now}

ProfileDetail(user, name) ==
    /\ req' = Request("profile", "GET", user, 0, 0, name, NoData)
    /\ resp' = IF ProfileOwner(name) = {} THEN NotFound
               ELSE ListPage(Annotate(ProfileQueryset(user, CHOOSE u \in ProfileOwner(name) : TRUE)))
    /\ UNCHANGED <<now, db>>

----
\* forms.py

PostFormData ==
    [title : Titles, category : Slugs \cup {NoCategory}, pub_date : Dates, author : Users]
CommentFormData == [text : Texts]
ProfileFormData == [username : Usernames]

\* PostForm.is_valid(): title is required, category is a choice among the
\* Category rows (or left empty); everything submitted outside the form's
\* fields (author, is_published) is not looked at
PostFormIsValid(data) ==
    /\ data.title # ""
    /\ \/ data.category = NoCategory
       \/ \E c \in categories : c.slug = data.category

\* a PostForm that does not exclude is_published: the box is not in the
\* submission, so the field is saved as False
PostFormSave_IncludesIsPublished(instance, data) ==
    [instance EXCEPT !.title = data.title,
                     !.category = data.category,
                     !.pub_date = data.pub_date,
                     !.is_published = FALSE]

\* PostForm.save(): the form's fields are written to the instance, the
\* excluded ones (is_published, author, created_at) are kept
PostFormSave(instance, data) ==
    [instance EXCEPT !.title = data.title,
                     !.category = data.category,
                     !.pub_date = data.pub_date]

\* CommentForm.is_valid(): text is required
CommentFormIsValid(data) == data.text # ""

\* CommentForm.save(): fields = ('text',)
CommentFormSave(instance, data) == [instance EXCEPT !.text = data.text]

\* ProfileForm.is_valid(): the username is unique among the other accounts
ProfileFormIsValid(user, data) ==
    \A u \in Users \ {user} : username[u] # data.username

\* the value a new Post row has in is_published, which no form sets
DefaultIsPublished == TRUE

----
\* PostCreateView: /posts/create/

\* form_valid without the assignment, the author taken from the submission
PostCreateFormValid_ClientAuthor(user, data) ==
    [author |-> data.author, category |-> data.category, pub_date |-> data.pub_date,
     is_published |-> DefaultIsPublished, title |-> data.title]

\* form_valid: form.instance.author = self.request.user, then the form is saved
PostCreateFormValid(user, data) ==
    PostFormSave([author |-> user, category |-> NoCategory, pub_date |-> 0,
                  is_published |-> DefaultIsPublished, title |-> ""], data)

PostCreate(user, method, data) ==
    /\ (method = "GET") <=> (data = NoData)
    /\ req' = Request("create_post", method, user, 0, 0, "", data)
    /\ IF ~IsAuthenticated(user)
       THEN resp' = RedirectToLogin /\ UNCHANGED <<now, db>>
       ELSE IF method = "GET" \/ ~PostFormIsValid(data)
       THEN resp' = FormPage(0) /\ UNCHANGED <<now, db>>
       ELSE /\ nextPostId <= MaxPosts
            /\ posts' = [p \in DOMAIN posts \cup {nextPostId} |->
                            IF p = nextPostId THEN PostCreateFormValid(user, data)
                            ELSE posts[p]]
            /\ nextPostId' = nextPostId + 1
            /\ resp' = Redirect("profile", 0, username[user])
            /\ UNCHANGED <<now, username, categories, comments, nextCommentId>>

----
\* PostEditView: /posts/<id>/edit/

\* dispatch: self.get_object().author != self.request.user
PostEditNotAuthor(user, id) == posts[id].author # user

PostEdit(user, method, id, data) ==
    /\ (method = "GET") <=> (data = NoData)
    /\ req' = Request("edit_post", method, user, id, 0, "", data)
    /\ IF id \notin DOMAIN posts
       THEN resp' = NotFound /\ UNCHANGED <<now, db>>
       ELSE IF PostEditNotAuthor(user, id)
       THEN resp' = Redirect("post_detail", id, "") /\ UNCHANGED <<now, db>>
       ELSE IF ~IsAuthenticated(user)
       THEN resp' = RedirectToLogin /\ UNCHANGED <<now, db>>
       ELSE IF method = "GET" \/ ~PostFormIsValid(data)
       THEN resp' = FormPage(id) /\ UNCHANGED <<now, db>>
       ELSE /\ posts' = [posts EXCEPT ![id] = PostFormSave(posts[id], data)]
            /\ resp' = Redirect("post_detail", id, "")
            /\ UNCHANGED <<now, username, categories, comments, nextPostId, nextCommentId>>

----
\* PostDeleteView: /posts/<id>/delete/

\* dispatch: self.get_object().author != self.request.user
PostDeleteNotAuthor(user, id) == posts[id].author # user

\* the Comment rows deleted with their post
CommentsAfterPostDelete(id) ==
    [c \in {x \in DOMAIN comments : comments[x].post # id} |-> comments[c]]

PostDelete(user, method, id) ==
    /\ req' = Request("delete_post", method, user, id, 0, "", NoData)
    /\ IF id \notin DOMAIN posts
       THEN resp' = NotFound /\ UNCHANGED <<now, db>>
       ELSE IF PostDeleteNotAuthor(user, id)
       THEN resp' = Redirect("post_detail", id, "") /\ UNCHANGED <<now, db>>
       ELSE IF ~IsAuthenticated(user)
       THEN resp' = RedirectToLogin /\ UNCHANGED <<now, db>>
       ELSE IF method = "GET"
       THEN resp' = FormPage(id) /\ UNCHANGED <<now, db>>
       ELSE /\ posts' = [p \in DOMAIN posts \ {id} |-> posts[p]]
            /\ comments' = CommentsAfterPostDelete(id)
            /\ resp' = Redirect("profile", 0, username[user])
            /\ UNCHANGED <<now, username, categories, nextPostId, nextCommentId>>

----
\* ProfileEditView: /user/

ProfileEdit(user, method, data) ==
    /\ (method = "GET") <=> (data = NoData)
    /\ req' = Request("edit_profile", method, user, 0, 0, "", data)
    /\ IF ~IsAuthenticated(user)
       THEN resp' = RedirectToLogin /\ UNCHANGED <<now, db>>
       ELSE IF method = "GET" \/ ~ProfileFormIsValid(user, data)
       THEN resp' = FormPage(0) /\ UNCHANGED <<now, db>>
       ELSE /\ username' = [username EXCEPT ![user] = data.username]
            /\ resp' = Redirect("profile", 0, data.username)
            /\ UNCHANGED <<now, categories, posts, comments, nextPostId, nextCommentId>>

----
\* CommentCreateView: /posts/<id>/comment/

\* posting: get_object_or_404(Post, pk=..., pub_date__lte=now, is_published=True,
\* category__is_published=True)
CommentCreatePosting(id) ==
    {p \in DOMAIN posts : /\ p = id
                          /\ posts[p].pub_date <= now
                          /\ posts[p].is_published
                          /\ CategoryPublished(posts[p].category)}

\* form_valid: form.instance.author = request.user; form.instance.post = posting
CommentCreateFormValid(user, id, data) ==
    CommentFormSave([author |-> user, post |-> id, text |-> ""], data)

CommentCreate(user, method, id, data) ==
    /\ (method = "GET") <=> (data = NoData)
    /\ req' = Request("add_comment", method, user, id, 0, "", data)
    /\ IF ~IsAuthenticated(user)
       THEN resp' = RedirectToLogin /\ UNCHANGED <<now, db>>
       ELSE IF method = "GET" \/ ~CommentFormIsValid(data)
       THEN resp' = FormPage(0) /\ UNCHANGED <<now, db>>
       ELSE IF CommentCreatePosting(id) = {}
       THEN resp' = NotFound /\ UNCHANGED <<now, db>>
       ELSE /\ nextCommentId <= MaxComments
            /\ comments' = [c \in DOMAIN comments \cup {nextCommentId} |->
                               IF c = nextCommentId
                               THEN CommentCreateFormValid(user, id, data)
                               ELSE comments[c]]
            /\ nextCommentId' = nextCommentId + 1
            /\ resp' = Redirect("post_detail", id, "")
            /\ UNCHANGED <<now, username, categories, posts, nextPostId>>

----
\* CommentUpdateView: /posts/<id>/edit_comment/<comment>/

\* get_object(): pk_url_kwarg = 'comment', the id of the URL is not used
CommentUpdateGetObject(id, comment) == {c \in DOMAIN comments : c = comment}

\* dispatch: self.get_object().author != self.request.user
CommentUpdateNotAuthor(user, comment) == comments[comment].author # user

CommentUpdate(user, method, id, comment, data) ==
    /\ (method = "GET") <=> (data = NoData)
    /\ req' = Request("edit_comment", method, user, id, comment, "", data)
    /\ IF CommentUpdateGetObject(id, comment) = {}
       THEN resp' = NotFound /\ UNCHANGED <<now, db>>
       ELSE IF CommentUpdateNotAuthor(user, comment)
       THEN resp' = Redirect("post_detail", id, "") /\ UNCHANGED <<now, db>>
       ELSE IF ~IsAuthenticated(user)
       THEN resp' = RedirectToLogin /\ UNCHANGED <<now, db>>
       ELSE IF method = "GET" \/ ~CommentFormIsValid(data)
       THEN resp' = FormPage(comment) /\ UNCHANGED <<now, db>>
       ELSE /\ comments' = [comments EXCEPT ![comment] = CommentFormSave(comments[comment], data)]
            /\ resp' = Redirect("post_detail", id, "")
            /\ UNCHANGED <<now, username, categories, posts, nextPostId, nextCommentId>>

----
\* CommentDeleteView: /posts/<id>/delete_comment/<comment>/

\* get_object(): pk_url_kwarg = 'comment', the id of the URL is not used
CommentDeleteGetObject(id, comment) == {c \in DOMAIN comments : c = comment}

\* dispatch without the comparison of the author
CommentDeleteNotAuthor_Unchecked(user, comment) == FALSE

\* dispatch: self.get_object().author != self.request.user
CommentDeleteNotAuthor(user, comment) == comments[comment].author # user

CommentDelete(user, method, id, comment) ==
    /\ req' = Request("delete_comment", method, user, id, comment, "", NoData)
    /\ IF CommentDeleteGetObject(id, comment) = {}
       THEN resp' = NotFound /\ UNCHANGED <<now, db>>
       ELSE IF CommentDeleteNotAuthor(user, comment)
       THEN resp' = Redirect("post_detail", id, "") /\ UNCHANGED <<now, db>>
       ELSE IF ~IsAuthenticated(user)
       THEN resp' = RedirectToLogin /\ UNCHANGED <<now, db>>
       ELSE IF method = "GET"
       THEN resp' = FormPage(comment) /\ UNCHANGED <<now, db>>
       ELSE /\ comments' = [c \in DOMAIN comments \ {comment} |-> comments[c]]
            /\ resp' = Redirect("post_detail", id, "")
            /\ UNCHANGED <<now, username, categories, posts, nextPostId, nextCommentId>>

----
\* The clock and the request cycle

\* timezone.now() moves on between requests
Tick ==
    /\ Idle
    /\ now < MaxNow
    /\ now' = now + 1
    /\ UNCHANGED <<db, req, resp>>

\* the response is sent and the view instance is dropped
Complete ==
    /\ req # NoRequest
    /\ req' = NoRequest
    /\ resp' = NoResponse
    /\ UNCHANGED <<now, db>>

----
\* The database before the first request

InitCategories ==
    {[slug |-> "s1", is_published |-> TRUE], [slug |-> "s2", is_published |-> FALSE]}

\* rows a Post can hold: the foreign keys point at existing rows
PostRows ==
    [author : Users,
     category : {c.slug : c \in InitCategories} \cup {NoCategory},
     pub_date : Dates,
     is_published : BOOLEAN,
     title : Titles \ {""}]

\* no post, or one post entered before the first request
InitPosts == {[p \in {} |-> 0]} \cup {[p \in {1} |-> row] : row \in PostRows}

Init ==
    /\ now = 0
    /\ username = InitUsername
    /\ categories = InitCategories
    /\ posts \in InitPosts
    /\ comments = [c \in {} |-> 0]
    /\ nextPostId = Cardinality(DOMAIN posts) + 1
    /\ nextCommentId = 1
    /\ req = NoRequest
    /\ resp = NoResponse

----
\* urls.py: the routes, each with the requests it can carry

RouteIndex ==
    Idle /\ \E user \in Viewers : PostList(user)
RouteCreatePost ==
    Idle /\ \E user \in Viewers, method \in Methods, data \in PostFormData \cup {NoData} :
              PostCreate(user, method, data)
RoutePostDetail ==
    Idle /\ \E user \in Viewers, id \in PostIds : PostDetail(user, id)
RouteEditPost ==
    Idle /\ \E user \in Viewers, method \in Methods, id \in PostIds,
               data \in PostFormData \cup {NoData} :
              PostEdit(user, method, id, data)
RouteDeletePost ==
    Idle /\ \E user \in Viewers, method \in Methods, id \in PostIds :
              PostDelete(user, method, id)
RouteCategoryPosts ==
    Idle /\ \E user \in Viewers, slug \in Slugs : PostCategories(user, slug)
RouteProfile ==
    Idle /\ \E user \in Viewers, name \in Usernames : ProfileDetail(user, name)
RouteEditProfile ==
    Idle /\ \E user \in Viewers, method \in Methods, data \in ProfileFormData \cup {NoData} :
              ProfileEdit(user, method, data)
RouteAddComment ==
    Idle /\ \E user \in Viewers, method \in Methods, id \in PostIds,
               data \in CommentFormData \cup {NoData} :
              CommentCreate(user, method, id, data)
RouteEditComment ==
    Idle /\ \E user \in Viewers, method \in Methods, id \in PostIds, comment \in CommentIds,
               data \in CommentFormData \cup {NoData} :
              CommentUpdate(user, method, id, comment, data)
RouteDeleteComment ==
    Idle /\ \E user \in Viewers, method \in Methods, id \in PostIds, comment \in CommentIds :
              CommentDelete(user, method, id, comment)

Next ==
    \/ RouteIndex
    \/ RouteCreatePost
    \/ RoutePostDetail
    \/ RouteEditPost
    \/ RouteDeletePost
    \/ RouteCategoryPosts
    \/ RouteProfile
    \/ RouteEditProfile
    \/ RouteAddComment
    \/ RouteEditComment
    \/ RouteDeleteComment
    \/ Tick
    \/ Complete

Spec == Init /\ [][Next]_vars

----
\* Properties

\* the visibility predicate: published post, published category, pub_date not
\* in the future
Visible(post) ==
    /\ post.is_published
    /\ post.category # NoCategory
    /\ \E c \in categories : c.slug = post.category /\ c.is_published
    /\ post.pub_date <= now

\* the posts of a rendered listing
Listed == {x.id : x \in resp.body}

AuthViews == {"create_post", "edit_post", "delete_post", "edit_profile",
              "add_comment", "edit_comment", "delete_comment"}

\* C1: the detail page of an existing post p answers viewer v with the post if
\* v is p's author or p is published, under a published category and not
\* future-dated, and with not-found in every other case.
C1_DetailIffAuthorOrVisible ==
    (req.view = "post_detail" /\ req.id \in DOMAIN posts) =>
        IF req.user = posts[req.id].author \/ Visible(posts[req.id])
        THEN resp = PostDetailContext(req.id)
        ELSE resp = NotFound

\* C2: the profile page of u lists all of u's posts to u, and to anyone else
\* exactly u's posts for which the visibility predicate holds.
C2_ProfileListing ==
    (req.view = "profile" /\ resp.status = "page") =>
        \A u \in Users : username[u] = req.name =>
            Listed = IF req.user = u
                     THEN {p \in DOMAIN posts : posts[p].author = u}
                     ELSE {p \in DOMAIN posts : posts[p].author = u /\ Visible(posts[p])}

\* C3: the index lists exactly the posts for which the visibility predicate
\* holds, whoever asks.
C3_IndexListing ==
    req.view = "index" =>
        /\ resp.status = "page"
        /\ Listed = {p \in DOMAIN posts : Visible(posts[p])}

\* an index that shows one post and hides another one from its own author
C3_Witness ==
    /\ req.view = "index"
    /\ Listed # {}
    /\ \E p \in DOMAIN posts : posts[p].author = req.user /\ p \notin Listed

\* the step of C4
C4_NonAuthorStep ==
    (Idle /\ req'.user \in Users) =>
        /\ (/\ req'.view \in {"edit_post", "delete_post"}
            /\ req'.id \in DOMAIN posts
            /\ posts[req'.id].author # req'.user)
           => (resp' = Redirect("post_detail", req'.id, "") /\ UNCHANGED db)
        /\ (/\ req'.view \in {"edit_comment", "delete_comment"}
            /\ req'.comment \in DOMAIN comments
            /\ comments[req'.comment].author # req'.user)
           => (resp' = Redirect("post_detail", req'.id, "") /\ UNCHANGED db)
\* C4: post-edit, post-delete, comment-edit and comment-delete, GET or POST,
\* asked by an authenticated user who is not the author of the target, answer
\* with a redirect to the post detail page of the URL and change no table.
C4_NonAuthorRedirected == [][C4_NonAuthorStep]_vars

\* a non-author's POST to delete a comment was answered with the redirect
C4_Witness ==
    /\ req.view = "delete_comment"
    /\ req.method = "POST"
    /\ req.user \in Users
    /\ req.comment \in DOMAIN comments
    /\ comments[req.comment].author # req.user
    /\ resp.status = "redirect"

\* the step of C5
C5_AnonymousStep ==
    (/\ Idle
     /\ req'.user = Anonymous
     /\ req'.view \in AuthViews
     /\ req'.view \in {"edit_post", "delete_post"} => req'.id \in DOMAIN posts
     /\ req'.view \in {"edit_comment", "delete_comment"} => req'.comment \in DOMAIN comments)
    => (resp' = RedirectToLogin /\ UNCHANGED db)
\* C5: a request without a session to a handler that requires authentication
\* (for edit and delete: of an existing post or comment) is redirected to the
\* login page and changes no table.
C5_AnonymousToLogin == [][C5_AnonymousStep]_vars

\* the step of C6
C6_CommentCreateStep ==
    (/\ Idle
     /\ req'.view = "add_comment"
     /\ req'.method = "POST"
     /\ req'.user \in Users
     /\ req'.id \in DOMAIN posts) =>
        IF ~Visible(posts[req'.id])
        THEN resp' = NotFound /\ comments' = comments
        ELSE CommentFormIsValid(req'.data) =>
                /\ \E c \in CommentIds \ DOMAIN comments :
                      /\ DOMAIN comments' = DOMAIN comments \cup {c}
                      /\ comments'[c].author = req'.user
                      /\ comments'[c].post = req'.id
                /\ \A c \in DOMAIN comments : comments'[c] = comments[c]
                /\ resp' = Redirect("post_detail", req'.id, "")
\* C6: a POST to comment-create by an authenticated user on a post for which
\* the visibility predicate does not hold ends in not-found, whatever the form
\* holds, and leaves the comments alone; on a visible post a valid form
\* creates one comment of that user on that post and redirects to the post.
C6_CommentCreate == [][C6_CommentCreateStep]_vars

\* C7: the category page of slug s is not-found when no published category
\* has that slug, and otherwise lists exactly the published, not future-dated
\* posts of that category.
C7_CategoryListing ==
    req.view = "category_posts" =>
        IF \E c \in categories : c.slug = req.name /\ c.is_published
        THEN /\ resp.status = "page"
             /\ Listed = {p \in DOMAIN posts : /\ posts[p].category = req.name
                                               /\ posts[p].is_published
                                               /\ posts[p].pub_date <= now}
        ELSE resp = NotFound

\* a category page that shows a post and leaves out a published, current post
\* of another category
C7_Witness ==
    /\ req.view = "category_posts"
    /\ Listed # {}
    /\ \E p \in DOMAIN posts : /\ posts[p].category # req.name
                               /\ posts[p].is_published
                               /\ posts[p].pub_date <= now
                               /\ p \notin Listed

\* the step of C8
C8_PostCreateStep ==
    (/\ Idle
     /\ req'.view = "create_post"
     /\ req'.method = "POST"
     /\ req'.user \in Users) =>
        IF PostFormIsValid(req'.data)
        THEN /\ \E p \in PostIds \ DOMAIN posts :
                   /\ DOMAIN posts' = DOMAIN posts \cup {p}
                   /\ posts'[p].author = req'.user
             /\ \A p \in DOMAIN posts : posts'[p] = posts[p]
             /\ resp' = Redirect("profile", 0, username[req'.user])
        ELSE posts' = posts /\ resp'.status # "redirect"
\* C8: a valid POST to post-create by authenticated user u adds exactly one
\* post, whose author is u whatever author was submitted, and redirects to
\* u's profile; an invalid one adds nothing and does not redirect.
C8_PostCreate == [][C8_PostCreateStep]_vars

\* a post was created although the client submitted another user as author
C8_Witness ==
    /\ req.view = "create_post"
    /\ resp.status = "redirect"
    /\ req.user \in Users
    /\ req.data.author # req.user
    /\ nextPostId - 1 \in DOMAIN posts
    /\ posts[nextPostId - 1].author = req.user

\* the step of C9
C9_CommentOfPostStep ==
    (/\ Idle
     /\ req'.view \in {"edit_comment", "delete_comment"}
     /\ req'.comment \in DOMAIN comments) =>
        LET kept == /\ req'.comment \in DOMAIN comments'
                    /\ comments'[req'.comment] = comments[req'.comment]
        IN  /\ req'.id # comments[req'.comment].post => kept
            /\ ~kept => resp' = Redirect("post_detail", comments[req'.comment].post, "")
\* C9: comment-edit and comment-delete act on a comment of the post named in
\* the URL: a request whose post id is not the comment's post leaves the
\* comment as it is, and a request that edits or deletes the comment
\* redirects to the detail page of the comment's own post.
C9_CommentOfPost == [][C9_CommentOfPostStep]_vars

\* the step of C10
C10_AuthorshipStep ==
    /\ \A p \in DOMAIN posts : p < nextPostId
    /\ \A c \in DOMAIN comments : c < nextCommentId
    /\ nextPostId' >= nextPostId
    /\ nextCommentId' >= nextCommentId
    /\ \A p \in DOMAIN posts' :
          IF p \in DOMAIN posts
          THEN /\ posts'[p].author = posts[p].author
               /\ posts'[p].is_published = posts[p].is_published
          ELSE p >= nextPostId /\ posts'[p].author = req'.user
    /\ \A c \in DOMAIN comments' :
          IF c \in DOMAIN comments
          THEN /\ comments'[c].author = comments[c].author
               /\ comments'[c].post = comments[c].post
          ELSE /\ c >= nextCommentId
               /\ comments'[c].author = req'.user
               /\ comments'[c].post = req'.id
\* C10: primary keys are never handed out twice; a row that appears has the
\* session user as author (a comment: the post of the URL as parent); a row
\* that stays keeps its author, a post its is_published, a comment its post.
C10_Authorship == [][C10_AuthorshipStep]_vars

\* the author edited an unpublished post while submitting another author
C10_Witness ==
    /\ req.view = "edit_post"
    /\ resp.status = "redirect"
    /\ req.id \in DOMAIN posts
    /\ req.user = posts[req.id].author
    /\ req.data.author # req.user
    /\ ~posts[req.id].is_published

====
